---- MODULE Spec2Model ----
(***************************************************************************)
(* SmoothBox Raspberry Pi camera (src/main.py): the ToF presence detector  *)
(* and the asyncio tasks it drives (entry burst, exit capture, periodic    *)
(* verification, fallback loop).                                           *)
(*                                                                         *)
(* asyncio is single-threaded and cooperative: a task runs without         *)
(* interleaving from one await that really suspends (asyncio.sleep, the    *)
(* HTTP post inside send_image) to the next.  Every action below is one    *)
(* such run.  Time is a discrete clock `now`; asyncio.sleep(t) lets the    *)
(* task resume at any instant >= now + t.                                  *)
(***************************************************************************)
EXTENDS Integers, Sequences, FiniteSets, TLC

\* ------------------------------------------------------------ bounds
\* The clock stops advancing at MaxTime while the system is running.
MaxTime == 2
\* Largest configured smoothing window.
MaxWindow == 2
\* Bounds of the sample streams explored by StreamSpec: the sensor is read
\* MaxSamples times, with smoothing windows up to MaxStreamWindow.
MaxSamples == 9
MaxStreamWindow == 3

\* ------------------------------------------------- configuration values
\* config.yaml is not part of the source; these are the values the code
\* reads from it, in clock ticks.
\* 1.0 / config["tof_sensor"]["sampling"]["frequency_hz"]
sample_interval == 1
\* entry_event: send_duration_seconds, send_interval_seconds
entry_duration == 2
entry_interval == 1
\* periodic_check: interval_seconds, send_duration_seconds,
\* send_interval_seconds
check_interval == 1
check_duration == 2
check_send_interval == 1
\* fallback.periodic_capture.interval_seconds
fallback_interval == 1

\* Optional[int] None, for distances (which are >= 0).
None == -1
\* Raw results of sensor.get_distance(): a distance in mm, or an exception.
Distances == {400, 600, 800}
SensorRaises == -2
\* (vehicle_present_mm, vehicle_absent_mm) pairs of the configurations
\* explored.
ThresholdPairs == {<<500, 700>>}

\* What a call of capture_image meets: the simulation mode (CameraHandler
\* not enabled), a frame from camera.capture_array(), or an exception in it.
CameraResults == {"simulated", "frame", "raise"}
\* Results of session.post(): an HTTP status, asyncio.TimeoutError, or any
\* other exception.
TransportResults == {"200", "500", "timeout", "raise"}

Labels == {"entry", "exit", "verification", "fallback"}

VARIABLES
    config,            \* SmoothBoxCamera.config (immutable after _load_config)
    main_pc,           \* position of main(): "init", "gather", "returned"
    running,           \* SmoothBoxCamera.running
    vehicle_present,   \* SmoothBoxCamera.vehicle_present
    tof_enabled,       \* ToFSensor.enabled
    closed,            \* tof_sensor.close() and camera.close() have run
    current_distance,  \* ToFSensor.current_distance
    distance_history,  \* ToFSensor.distance_history
    now,               \* datetime.now() / the event loop's clock
    tof,               \* the _tof_monitoring_loop task
    ver,               \* the _periodic_verification_loop task
    fb,                \* the _fallback_capture_loop task
    bursts,            \* the _capture_entry_sequence tasks, in creation order
    exitcaps,          \* the _capture_single_image("exit") tasks
    events,            \* history: the Entry/Exit events logged, in order
    samples,           \* history: the distances read successfully, in order
    ncap,              \* history: camera.capture_image() calls per label
    lastRead,          \* observation: the sensor read made by the last step
    lastCapture,       \* observation: the camera request made by the last step
    lastCall           \* observation: the _capture_single_image call that
                       \* the last step finished

vars == <<config, main_pc, running, vehicle_present, tof_enabled, closed,
          current_distance, distance_history, now, tof, ver, fb, bursts,
          exitcaps, events, samples, ncap, lastRead, lastCapture, lastCall>>

\* ------------------------------------------------------------ ToFSensor

RECURSIVE Sum(_)
Sum(s) == IF s = <<>> THEN 0 ELSE Head(s) + Sum(Tail(s))

\* Mutant of PushHistory: on overflow the newest sample is dropped instead
\* of the oldest.
PushHistory_drops_newest(hist, distance, smoothing_window) ==
    LET appended == Append(hist, distance)
    IN  IF Len(appended) > smoothing_window THEN hist ELSE appended

\* read_distance's update of the smoothing history (lines 85-88).
PushHistory(hist, distance, smoothing_window) ==
    LET appended == Append(hist, distance)
    IN  IF Len(appended) > smoothing_window THEN Tail(appended) ELSE appended

\* Mutant of read_distance: a failed read pushes the last known distance
\* into the window again.
read_distance_repeats_last(raw, hist, cur, smoothing_window) ==
    IF raw = SensorRaises
    THEN [ret |-> None, current_distance |-> cur,
          distance_history |-> PushHistory(hist, cur, smoothing_window)]
    ELSE [ret |-> raw, current_distance |-> raw,
          distance_history |-> PushHistory(hist, raw, smoothing_window)]

\* read_distance (lines 70-94) on the raw result of sensor.get_distance():
\* the returned value and the sensor's fields afterwards.
read_distance(raw, hist, cur, smoothing_window) ==
    IF raw = SensorRaises
    THEN [ret |-> None, current_distance |-> cur, distance_history |-> hist]
    ELSE [ret |-> raw, current_distance |-> raw,
          distance_history |-> PushHistory(hist, raw, smoothing_window)]

\* get_smoothed_distance (lines 96-101): int(sum / len) truncates; the
\* distances are non-negative, so truncation is the floor.
get_smoothed_distance(hist, cur) ==
    IF hist = <<>> THEN cur ELSE Sum(hist) \div Len(hist)

\* Mutant of is_vehicle_present: the threshold itself counts as present.
is_vehicle_present_inclusive(hist, cur, threshold) ==
    LET distance == get_smoothed_distance(hist, cur)
    IN  IF distance = None THEN FALSE ELSE distance <= threshold

\* is_vehicle_present (lines 103-110).
is_vehicle_present(hist, cur, threshold) ==
    LET distance == get_smoothed_distance(hist, cur)
    IN  IF distance = None THEN FALSE ELSE distance < threshold

\* Mutant of is_vehicle_absent: no hysteresis band, whatever is not below
\* the presence threshold counts as absent.
is_vehicle_absent_no_band(hist, cur, threshold) ==
    LET distance == get_smoothed_distance(hist, cur)
    IN  IF distance = None THEN TRUE ELSE distance >= config.thresholds[1]

\* is_vehicle_absent (lines 112-119).
is_vehicle_absent(hist, cur, threshold) ==
    LET distance == get_smoothed_distance(hist, cur)
    IN  IF distance = None THEN TRUE ELSE distance > threshold

\* -------------------------------------------- CameraHandler, NVIDIAClient

\* capture_image (lines 177-208): the dummy image in simulation mode, else
\* the encoded frame, or None when the camera raises.
capture_image(cam) ==
    CASE cam = "simulated" -> "bytes"
      [] cam = "frame" -> "bytes"
      [] OTHER -> "None"

\* Mutant of send_image: any HTTP response counts as delivered.
send_image_any_status(resp) ==
    CASE resp = "timeout" -> FALSE
      [] resp = "raise" -> FALSE
      [] OTHER -> TRUE

\* send_image (lines 246-282): True only for status 200; asyncio.TimeoutError
\* and every other exception are caught and become False.
send_image(resp) ==
    CASE resp = "200" -> TRUE
      [] resp = "timeout" -> FALSE
      [] resp = "raise" -> FALSE
      [] OTHER -> FALSE

\* ------------------------------------------------ _capture_single_image
\* Lines 437-446, up to the await of send_image: "CaptureFailed" is the
\* "Failed to capture image" return, "await_send" the suspension in the post.
capture_single_image_begin(cam) ==
    LET image_data == capture_image(cam)
    IN  IF image_data = "None" THEN "CaptureFailed" ELSE "await_send"

\* Mutant of capture_single_image_end: an exception of the transport is not
\* caught and leaves the coroutine.
capture_single_image_end_raises(resp) ==
    IF resp = "raise" THEN "Raised"
    ELSE IF resp = "200" THEN "Sent" ELSE "SendFailed"

\* Lines 446-454, from the return of send_image: the branch logged.  The
\* coroutine returns normally in each; "Raised" would be an exception
\* escaping it, which the try/except leaves no path to.
capture_single_image_end(resp) ==
    LET success == send_image(resp)
    IN  IF success THEN "Sent" ELSE "SendFailed"

\* ------------------------------------------------------- observations
NoRead == [kind |-> "none", raw |-> None, distance |-> None, smoothed |-> None,
           was_present |-> FALSE]
ReadOf(raw, distance, smoothed, was) ==
    [kind |-> "read", raw |-> raw, distance |-> distance, smoothed |-> smoothed,
     was_present |-> was]

NoCapture == [label |-> "none", cam |-> "none"]
CaptureOf(label, cam) == [label |-> label, cam |-> cam]

NoCall == [kind |-> "none", idx |-> 0, label |-> "none", image |-> "none",
           resp |-> "none", sends |-> 0, outcome |-> "none"]
CallOf(kind, idx, label, image, resp, sends, outcome) ==
    [kind |-> kind, idx |-> idx, label |-> label, image |-> image,
     resp |-> resp, sends |-> sends, outcome |-> outcome]

\* ----------------------------------------------------------- the tasks
Idle == [pc |-> "none", wake |-> 0]
Ready == [pc |-> "ready", wake |-> 0]
Done == [pc |-> "done", wake |-> 0]
Crashed == [pc |-> "crashed", wake |-> 0]
Sleeping(t) == [pc |-> "sleep", wake |-> now + t]

NewBurst == [pc |-> "ready", wake |-> 0, end_time |-> 0, count |-> 0]

\* The configurations explored.  With the sensor enabled the fallback flag is
\* read only if initialize() fails; with the sensor disabled the sampling
\* loop returns at once and reads none of its settings.
SensorConfigs ==
    [entry_enabled : BOOLEAN, exit_enabled : BOOLEAN,
     exit_send_immediate : BOOLEAN, periodic_enabled : BOOLEAN,
     fallback_enabled : {TRUE}, smoothing_window : 1..MaxWindow,
     thresholds : ThresholdPairs]
FallbackConfigs ==
    [entry_enabled : {TRUE}, exit_enabled : {TRUE},
     exit_send_immediate : {TRUE}, periodic_enabled : BOOLEAN,
     fallback_enabled : BOOLEAN, smoothing_window : {1},
     thresholds : {<<500, 700>>}]

vehicle_present_mm == config.thresholds[1]
vehicle_absent_mm == config.thresholds[2]

\* SmoothBoxCamera.__init__, ToFSensor.__init__, CameraHandler.__init__ on
\* one of the configurations `configs`, the sensor enabled or not.
Constructed(enabled, configs) ==
    /\ tof_enabled = enabled
    /\ config \in configs
    /\ main_pc = "init"
    /\ running = FALSE
    /\ vehicle_present = FALSE
    /\ closed = FALSE
    /\ current_distance = None
    /\ distance_history = <<>>
    /\ now = 0
    /\ tof = Idle
    /\ ver = [pc |-> "none", wake |-> 0, end_time |-> 0]
    /\ fb = Idle
    /\ bursts = <<>>
    /\ exitcaps = <<>>
    /\ events = <<>>
    /\ samples = <<>>
    /\ ncap = [l \in Labels |-> 0]
    /\ lastRead = NoRead
    /\ lastCapture = NoCapture
    /\ lastCall = NoCall

Init ==
    \/ Constructed(TRUE, SensorConfigs)
    \/ Constructed(FALSE, FallbackConfigs)

\* A task suspended in asyncio.sleep whose delay has not yet elapsed, and a
\* task the event loop can resume now.
Waiting(t) == t.pc \in {"sleep", "burst_sleep"} /\ t.wake > now
Runnable(t) ==
    t.pc = "ready" \/ (t.pc \in {"sleep", "burst_sleep"} /\ t.wake <= now)
SomeWaiting ==
    \/ Waiting(tof) \/ Waiting(ver) \/ Waiting(fb)
    \/ \E i \in 1..Len(bursts) : Waiting(bursts[i])
SomeRunnable ==
    \/ Runnable(tof) \/ Runnable(ver) \/ Runnable(fb)
    \/ \E i \in 1..Len(bursts) : Runnable(bursts[i])
    \/ \E i \in 1..Len(exitcaps) : exitcaps[i] = "ready"

\* The passage of one clock tick.  The event loop is not overloaded: the
\* tasks it can resume run before the clock advances (the synchronous code
\* between two awaits takes no time), while a post in flight may take any
\* number of ticks.  The clock is followed up to `horizon`, and
\* beyond it as long as a shutdown is being completed.
TickUntil(horizon) ==
    /\ main_pc = "gather"
    /\ ~SomeRunnable
    /\ now < horizon \/ (~running /\ SomeWaiting)
    /\ now' = now + 1
    /\ lastRead' = NoRead
    /\ lastCapture' = NoCapture
    /\ lastCall' = NoCall
    /\ UNCHANGED <<config, main_pc, running, vehicle_present, tof_enabled,
                   closed, current_distance, distance_history, samples, tof,
                   ver, fb, bursts, exitcaps, events, ncap>>

Tick == TickUntil(MaxTime)

\* Mutant of fallback_task: the fallback loop is started whatever the sensor.
fallback_task_always(enabled) == Ready

\* Lines 351-353: the fallback task exists only if the sensor is disabled.
fallback_task(enabled) == IF ~enabled THEN Ready ELSE Idle

\* start (lines 335-358), up to the await of gather: tof_sensor.initialize()
\* may fail and disable the sensor.
start ==
    /\ main_pc = "init"
    /\ tof_enabled' \in (IF tof_enabled THEN BOOLEAN ELSE {FALSE})
    /\ running' = TRUE
    /\ tof' = Ready
    /\ ver' = [pc |-> "ready", wake |-> 0, end_time |-> 0]
    /\ fb' = fallback_task(tof_enabled')
    /\ main_pc' = "gather"
    /\ lastRead' = NoRead
    /\ lastCapture' = NoCapture
    /\ lastCall' = NoCall
    /\ UNCHANGED <<config, vehicle_present, closed, current_distance,
                   distance_history, samples, now, bursts, exitcaps, events,
                   ncap>>

\* gather (line 358) returns once the tasks start() created have finished,
\* and raises once one of them has.  main() then ends, and asyncio.run
\* (line 525) cancels the tasks that are left: the bursts and exit captures
\* nobody awaits.
Gathered == {tof.pc, ver.pc, fb.pc}
Finished == {"done", "crashed", "cancelled"}
start_return ==
    /\ main_pc = "gather"
    /\ \/ "crashed" \in Gathered /\ main_pc' = "raised"
       \/ Gathered \subseteq {"done", "none"} /\ main_pc' = "returned"
    /\ bursts' = [i \in 1..Len(bursts) |->
                   IF bursts[i].pc \in Finished THEN bursts[i]
                   ELSE [pc |-> "cancelled", wake |-> 0, end_time |-> 0,
                         count |-> bursts[i].count]]
    /\ exitcaps' = [i \in 1..Len(exitcaps) |->
                     IF exitcaps[i] \in Finished THEN exitcaps[i]
                     ELSE "cancelled"]
    /\ lastRead' = NoRead
    /\ lastCapture' = NoCapture
    /\ lastCall' = NoCall
    /\ UNCHANGED <<config, running, vehicle_present, tof_enabled, closed,
                   current_distance, distance_history, samples, now, tof, ver,
                   fb, events, ncap>>

\* Mutant of stop: the hardware is closed but running is left set.
stop_keeps_running ==
    /\ main_pc = "gather"
    /\ running
    /\ closed' = TRUE
    /\ lastRead' = NoRead
    /\ lastCapture' = NoCapture
    /\ lastCall' = NoCall
    /\ UNCHANGED <<config, main_pc, running, vehicle_present, tof_enabled,
                   current_distance, distance_history, samples, now, tof, ver,
                   fb, bursts, exitcaps, events, ncap>>

\* Mutant of stop: the shutdown also resets the presence state.
stop_clears_presence ==
    /\ main_pc = "gather"
    /\ running
    /\ running' = FALSE
    /\ closed' = TRUE
    /\ vehicle_present' = FALSE
    /\ lastRead' = NoRead
    /\ lastCapture' = NoCapture
    /\ lastCall' = NoCall
    /\ UNCHANGED <<config, main_pc, tof_enabled, current_distance,
                   distance_history, samples, now, tof, ver, fb, bursts,
                   exitcaps, events, ncap>>

\* stop (lines 360-369), run as the task handle_shutdown creates.
stop ==
    /\ main_pc = "gather"
    /\ running
    /\ running' = FALSE
    /\ closed' = TRUE
    /\ lastRead' = NoRead
    /\ lastCapture' = NoCapture
    /\ lastCall' = NoCall
    /\ UNCHANGED <<config, main_pc, vehicle_present, tof_enabled,
                   current_distance, distance_history, samples, now, tof, ver,
                   fb, bursts, exitcaps, events, ncap>>

\* Mutant of presence_event: an Entry for every present reading, not only on
\* the Absent-to-Present edge.
presence_event_level(is_present, is_absent, present) ==
    IF is_present THEN "Entry"
    ELSE IF is_absent /\ present THEN "Exit"
    ELSE "none"

\* Lines 393 and 403: the event the sampling loop raises.
presence_event(is_present, is_absent, present) ==
    IF is_present /\ ~present THEN "Entry"
    ELSE IF is_absent /\ present THEN "Exit"
    ELSE "none"

\* Lines 399-400 and 409-411: the tasks an event creates.
spawn_entry(event) == event = "Entry" /\ config.entry_enabled
\* Mutant of spawn_exit: send_immediate is not consulted.
spawn_exit_unconditional(event) == event = "Exit" /\ config.exit_enabled
spawn_exit(event) ==
    event = "Exit" /\ config.exit_enabled /\ config.exit_send_immediate

\* Mutant of presence_after: the state is updated inside the test of the
\* trigger's enable flag.
presence_after_if_enabled(event, present) ==
    CASE event = "Entry" /\ config.entry_enabled -> TRUE
      [] event = "Exit" /\ config.exit_enabled -> FALSE
      [] OTHER -> present

\* Lines 395 and 405: vehicle_present after the event, set before the
\* trigger flags are looked at.
presence_after(event, present) ==
    CASE event = "Entry" -> TRUE
      [] event = "Exit" -> FALSE
      [] OTHER -> present

\* Mutant of tof_after_iteration: the entry burst is awaited in the loop
\* instead of being left to a task of its own.
tof_after_iteration_joined(event) ==
    IF spawn_entry(event) THEN Sleeping(entry_duration + sample_interval)
    ELSE Sleeping(sample_interval)

\* Line 413: the loop's suspension at the end of an iteration, whatever the
\* event raised and the tasks created (create_task does not suspend).
tof_after_iteration(event) == Sleeping(sample_interval)

\* One iteration of the while loop of _tof_monitoring_loop (lines 380-413)
\* on the raw result of the sensor.
tof_iteration(raw) ==
    LET r == read_distance(raw, distance_history, current_distance,
                           config.smoothing_window)
        is_present == is_vehicle_present(r.distance_history, r.current_distance,
                                         vehicle_present_mm)
        is_absent == is_vehicle_absent(r.distance_history, r.current_distance,
                                       vehicle_absent_mm)
        event == IF r.ret = None THEN "none"
                 ELSE presence_event(is_present, is_absent, vehicle_present)
    IN  /\ current_distance' = r.current_distance
        /\ distance_history' = r.distance_history
        /\ vehicle_present' = presence_after(event, vehicle_present)
        /\ events' = IF event = "none" THEN events ELSE Append(events, event)
        /\ samples' = IF r.ret = None THEN samples ELSE Append(samples, r.ret)
        /\ bursts' = IF spawn_entry(event) THEN Append(bursts, NewBurst)
                     ELSE bursts
        /\ exitcaps' = IF spawn_exit(event) THEN Append(exitcaps, "ready")
                       ELSE exitcaps
        /\ tof' = tof_after_iteration(event)
        /\ lastRead' = ReadOf(raw, r.ret,
                              IF r.ret = None THEN None
                              ELSE get_smoothed_distance(r.distance_history,
                                                         r.current_distance),
                              vehicle_present)

\* _tof_monitoring_loop (lines 371-413): from its creation or from a sleep
\* to its next sleep or its return, the sensor answering one of `raws`.
tof_monitoring_loop_on(raws) ==
    /\ main_pc = "gather"
    /\ tof.pc = "ready" \/ (tof.pc = "sleep" /\ now >= tof.wake)
    /\ IF (tof.pc = "ready" /\ ~tof_enabled) \/ ~running
       THEN /\ tof' = Done
            /\ lastRead' = NoRead
            /\ UNCHANGED <<current_distance, distance_history, samples,
                           vehicle_present, events, bursts, exitcaps>>
       ELSE \E raw \in raws : tof_iteration(raw)
    /\ lastCapture' = NoCapture
    /\ lastCall' = NoCall
    /\ UNCHANGED <<config, main_pc, running, tof_enabled, closed, now, ver, fb,
                   ncap>>

tof_monitoring_loop == tof_monitoring_loop_on(Distances \cup {SensorRaises})

\* ---------------------------------------------- _capture_entry_sequence
\* Mutant of entry_continues: the burst stops when the vehicle has left.
entry_continues_while_present(end_time) ==
    now < end_time /\ running /\ vehicle_present

\* Line 429: the burst's loop condition.
entry_continues(end_time) == now < end_time /\ running

\* Line 431 after the call of line 430 has finished with `outcome`.
burst_after_call(b, outcome) ==
    IF outcome = "Raised"
    THEN [pc |-> "crashed", wake |-> 0, end_time |-> 0, count |-> b.count]
    ELSE [pc |-> "sleep", wake |-> now + entry_interval,
          end_time |-> b.end_time, count |-> b.count]

\* _capture_entry_sequence (lines 419-433) of burst i: from its creation or
\* from a sleep, through the loop test and the camera capture, to the await
\* of the post, the next sleep or the return.
capture_entry_sequence(i) ==
    LET b == bursts[i]
        end_time == IF b.pc = "ready" THEN now + entry_duration ELSE b.end_time
    IN  /\ main_pc = "gather"
        /\ b.pc = "ready" \/ (b.pc = "sleep" /\ now >= b.wake)
        /\ IF entry_continues(end_time)
           THEN \E cam \in CameraResults :
                  LET stage == capture_single_image_begin(cam)
                      c == [pc |-> "sending", wake |-> 0, end_time |-> end_time,
                            count |-> b.count + 1]
                  IN  /\ ncap' = [ncap EXCEPT !["entry"] = @ + 1]
                      /\ lastCapture' = CaptureOf("entry", cam)
                      /\ IF stage = "await_send"
                         THEN /\ bursts' = [bursts EXCEPT ![i] = c]
                              /\ lastCall' = NoCall
                         ELSE /\ bursts' = [bursts EXCEPT
                                              ![i] = burst_after_call(c, stage)]
                              /\ lastCall' = CallOf("burst", i, "entry", "None",
                                                    "none", 0, stage)
           ELSE /\ bursts' = [bursts EXCEPT ![i] =
                                [pc |-> "done", wake |-> 0, end_time |-> 0,
                                 count |-> b.count]]
                /\ lastCapture' = NoCapture
                /\ lastCall' = NoCall
                /\ UNCHANGED ncap
        /\ lastRead' = NoRead
        /\ UNCHANGED <<config, main_pc, running, vehicle_present, tof_enabled,
                       closed, current_distance, distance_history, samples,
                       now, tof, ver, fb, exitcaps, events>>

\* The post of burst i's capture finishes (lines 446-451), then line 431.
entry_send_done(i) ==
    /\ main_pc = "gather"
    /\ bursts[i].pc = "sending"
    /\ \E resp \in TransportResults :
         LET outcome == capture_single_image_end(resp)
         IN  /\ bursts' = [bursts EXCEPT ![i] = burst_after_call(@, outcome)]
             /\ lastCall' = CallOf("burst", i, "entry", "bytes", resp, 1,
                                   outcome)
    /\ lastRead' = NoRead
    /\ lastCapture' = NoCapture
    /\ UNCHANGED <<config, main_pc, running, vehicle_present, tof_enabled,
                   closed, current_distance, distance_history, samples, now,
                   tof, ver, fb, exitcaps, events, ncap>>

\* ------------------------------------- _capture_single_image("exit") task
exit_capture(i) ==
    /\ main_pc = "gather"
    /\ exitcaps[i] = "ready"
    /\ \E cam \in CameraResults :
         LET stage == capture_single_image_begin(cam)
         IN  /\ ncap' = [ncap EXCEPT !["exit"] = @ + 1]
             /\ lastCapture' = CaptureOf("exit", cam)
             /\ IF stage = "await_send"
                THEN /\ exitcaps' = [exitcaps EXCEPT ![i] = "sending"]
                     /\ lastCall' = NoCall
                ELSE /\ exitcaps' = [exitcaps EXCEPT ![i] =
                                       IF stage = "Raised" THEN "crashed"
                                       ELSE "done"]
                     /\ lastCall' = CallOf("exit", i, "exit", "None", "none", 0,
                                           stage)
    /\ lastRead' = NoRead
    /\ UNCHANGED <<config, main_pc, running, vehicle_present, tof_enabled,
                   closed, current_distance, distance_history, samples, now,
                   tof, ver, fb, bursts, events>>

exit_send_done(i) ==
    /\ main_pc = "gather"
    /\ exitcaps[i] = "sending"
    /\ \E resp \in TransportResults :
         LET outcome == capture_single_image_end(resp)
         IN  /\ exitcaps' = [exitcaps EXCEPT ![i] =
                               IF outcome = "Raised" THEN "crashed" ELSE "done"]
             /\ lastCall' = CallOf("exit", i, "exit", "bytes", resp, 1, outcome)
    /\ lastRead' = NoRead
    /\ lastCapture' = NoCapture
    /\ UNCHANGED <<config, main_pc, running, vehicle_present, tof_enabled,
                   closed, current_distance, distance_history, samples, now,
                   tof, ver, fb, bursts, events, ncap>>

\* ------------------------------------------ _periodic_verification_loop
\* Mutant of verification_continues: the burst is gated like the entry
\* burst, by its duration and the shutdown flag only.
verification_continues_ungated(end_time) == now < end_time /\ running

\* Line 477: the verification burst's loop condition.
verification_continues(end_time) ==
    now < end_time /\ running /\ vehicle_present

\* Line 466: the outer loop test, then the sleep of line 467 or the return.
ver_outer ==
    IF running
    THEN [pc |-> "sleep", wake |-> now + check_interval, end_time |-> 0]
    ELSE [pc |-> "done", wake |-> 0, end_time |-> 0]

\* Line 479 after the call of line 478 has finished with `outcome`.
ver_after_call(end_time, outcome) ==
    IF outcome = "Raised"
    THEN [pc |-> "crashed", wake |-> 0, end_time |-> 0]
    ELSE [pc |-> "burst_sleep", wake |-> now + check_send_interval,
          end_time |-> end_time]

\* Lines 477-481 from the inner loop test on.
ver_inner(end_time) ==
    IF verification_continues(end_time)
    THEN \E cam \in CameraResults :
           LET stage == capture_single_image_begin(cam)
           IN  /\ ncap' = [ncap EXCEPT !["verification"] = @ + 1]
               /\ lastCapture' = CaptureOf("verification", cam)
               /\ IF stage = "await_send"
                  THEN /\ ver' = [pc |-> "sending", wake |-> 0,
                                  end_time |-> end_time]
                       /\ lastCall' = NoCall
                  ELSE /\ ver' = ver_after_call(end_time, stage)
                       /\ lastCall' = CallOf("ver", 0, "verification", "None",
                                             "none", 0, stage)
    ELSE /\ ver' = ver_outer
         /\ lastCapture' = NoCapture
         /\ lastCall' = NoCall
         /\ UNCHANGED ncap

\* _periodic_verification_loop (lines 456-481): from its creation or from a
\* sleep to its next suspension or its return.
periodic_verification_loop ==
    /\ main_pc = "gather"
    /\ \/ /\ ver.pc = "ready"
          /\ ver' = IF ~config.periodic_enabled
                    THEN [pc |-> "done", wake |-> 0, end_time |-> 0]
                    ELSE ver_outer
          /\ lastCapture' = NoCapture
          /\ lastCall' = NoCall
          /\ UNCHANGED ncap
       \/ /\ ver.pc = "sleep"
          /\ now >= ver.wake
          /\ IF ~vehicle_present
             THEN /\ ver' = ver_outer
                  /\ lastCapture' = NoCapture
                  /\ lastCall' = NoCall
                  /\ UNCHANGED ncap
             ELSE ver_inner(now + check_duration)
       \/ /\ ver.pc = "burst_sleep"
          /\ now >= ver.wake
          /\ ver_inner(ver.end_time)
    /\ lastRead' = NoRead
    /\ UNCHANGED <<config, main_pc, running, vehicle_present, tof_enabled,
                   closed, current_distance, distance_history, samples, now,
                   tof, fb, bursts, exitcaps, events>>

\* The post of a verification capture finishes, then line 479.
verification_send_done ==
    /\ main_pc = "gather"
    /\ ver.pc = "sending"
    /\ \E resp \in TransportResults :
         LET outcome == capture_single_image_end(resp)
         IN  /\ ver' = ver_after_call(ver.end_time, outcome)
             /\ lastCall' = CallOf("ver", 0, "verification", "bytes", resp, 1,
                                   outcome)
    /\ lastRead' = NoRead
    /\ lastCapture' = NoCapture
    /\ UNCHANGED <<config, main_pc, running, vehicle_present, tof_enabled,
                   closed, current_distance, distance_history, samples, now,
                   tof, fb, bursts, exitcaps, events, ncap>>

\* ------------------------------------------------ _fallback_capture_loop
\* Line 491: the loop test, then the sleep of line 492 or the return.
fb_loop == IF running THEN Sleeping(fallback_interval) ELSE Done

\* Line 491 after the call of line 493 has finished with `outcome`.
fb_after_call(outcome) == IF outcome = "Raised" THEN Crashed ELSE fb_loop

\* _fallback_capture_loop (lines 483-493): from its creation or from its
\* sleep to its next suspension or its return.
fallback_capture_loop ==
    /\ main_pc = "gather"
    /\ \/ /\ fb.pc = "ready"
          /\ fb' = IF ~config.fallback_enabled THEN Done ELSE fb_loop
          /\ lastCapture' = NoCapture
          /\ lastCall' = NoCall
          /\ UNCHANGED ncap
       \/ /\ fb.pc = "sleep"
          /\ now >= fb.wake
          /\ \E cam \in CameraResults :
               LET stage == capture_single_image_begin(cam)
               IN  /\ ncap' = [ncap EXCEPT !["fallback"] = @ + 1]
                   /\ lastCapture' = CaptureOf("fallback", cam)
                   /\ IF stage = "await_send"
                      THEN /\ fb' = [pc |-> "sending", wake |-> 0]
                           /\ lastCall' = NoCall
                      ELSE /\ fb' = fb_after_call(stage)
                           /\ lastCall' = CallOf("fb", 0, "fallback", "None",
                                                 "none", 0, stage)
    /\ lastRead' = NoRead
    /\ UNCHANGED <<config, main_pc, running, vehicle_present, tof_enabled,
                   closed, current_distance, distance_history, samples, now,
                   tof, ver, bursts, exitcaps, events>>

\* The post of a fallback capture finishes, then line 491.
fallback_send_done ==
    /\ main_pc = "gather"
    /\ fb.pc = "sending"
    /\ \E resp \in TransportResults :
         LET outcome == capture_single_image_end(resp)
         IN  /\ fb' = fb_after_call(outcome)
             /\ lastCall' = CallOf("fb", 0, "fallback", "bytes", resp, 1,
                                   outcome)
    /\ lastRead' = NoRead
    /\ lastCapture' = NoCapture
    /\ UNCHANGED <<config, main_pc, running, vehicle_present, tof_enabled,
                   closed, current_distance, distance_history, samples, now,
                   tof, ver, bursts, exitcaps, events, ncap>>

\* ------------------------------------------------------- specification
Next ==
    \/ Tick
    \/ start
    \/ start_return
    \/ stop
    \/ tof_monitoring_loop
    \/ \E i \in 1..Len(bursts) : capture_entry_sequence(i)
    \/ \E i \in 1..Len(bursts) : entry_send_done(i)
    \/ \E i \in 1..Len(exitcaps) : exit_capture(i)
    \/ \E i \in 1..Len(exitcaps) : exit_send_done(i)
    \/ periodic_verification_loop
    \/ verification_send_done
    \/ fallback_capture_loop
    \/ fallback_send_done

Spec == Init /\ [][Next]_vars

\* Every step but the shutdown signal, which may never come.
Progress ==
    \/ Tick
    \/ start
    \/ start_return
    \/ tof_monitoring_loop
    \/ \E i \in 1..Len(bursts) : capture_entry_sequence(i)
    \/ \E i \in 1..Len(bursts) : entry_send_done(i)
    \/ \E i \in 1..Len(exitcaps) : exit_capture(i)
    \/ \E i \in 1..Len(exitcaps) : exit_send_done(i)
    \/ periodic_verification_loop
    \/ verification_send_done
    \/ fallback_capture_loop
    \/ fallback_send_done

\* The event loop does not stop while a task is ready, a sleep is pending or
\* a post is in flight: a ready task is resumed, the clock advances, and a
\* post ends within its ClientTimeout (line 269).
FairSpec == Spec /\ WF_vars(Progress)

\* ------------------------------------------- the detector on a stream
\* The sampling loop alone, on longer streams of successful reads: no
\* trigger is enabled, so that no capture task exists, and no shutdown is
\* signalled.
StreamDistances == {400, 650, 800}
StreamConfigs ==
    [entry_enabled : {FALSE}, exit_enabled : {FALSE},
     exit_send_immediate : {FALSE}, periodic_enabled : {FALSE},
     fallback_enabled : {TRUE}, smoothing_window : 1..MaxStreamWindow,
     thresholds : ThresholdPairs]

StreamInit == Constructed(TRUE, StreamConfigs)

StreamTick == TickUntil((MaxSamples - 1) * sample_interval)

stream_monitoring_loop == tof_monitoring_loop_on(StreamDistances)

StreamNext ==
    \/ StreamTick
    \/ start
    \/ stream_monitoring_loop
    \/ periodic_verification_loop

StreamSpec == StreamInit /\ [][StreamNext]_vars

\* ------------------------------------- configurations that are not valid
\* _load_config (lines 308-311) returns whatever the YAML file holds: a
\* file whose thresholds are inverted (vehicle_present_mm above
\* vehicle_absent_mm) is loaded like any other.
InvertedThresholdPairs == {<<700, 500>>}
InvertedConfigs ==
    [entry_enabled : {TRUE}, exit_enabled : {TRUE},
     exit_send_immediate : {TRUE}, periodic_enabled : {TRUE},
     fallback_enabled : {TRUE}, smoothing_window : {1},
     thresholds : InvertedThresholdPairs]

InvertedInit ==
    \/ Constructed(TRUE, InvertedConfigs)
    \/ Constructed(FALSE, InvertedConfigs)

InvertedSpec == InvertedInit /\ [][Next]_vars

\* ================================================================ claims

\* C1: the presence state is initially Absent, and for every smoothed
\* distance d the sampling loop processes: d < present_mm in state Absent
\* makes the state Present and logs an Entry; d > absent_mm in state Present
\* makes it Absent and logs an Exit; in every other case the state is
\* unchanged and no event is logged.
C1_Processed == lastRead'.kind = "read" /\ lastRead'.distance # None
C1_Transition ==
    LET d == lastRead'.smoothed
    IN  IF d < vehicle_present_mm /\ ~vehicle_present
        THEN vehicle_present' /\ events' = Append(events, "Entry")
        ELSE IF d > vehicle_absent_mm /\ vehicle_present
        THEN ~vehicle_present' /\ events' = Append(events, "Exit")
        ELSE vehicle_present' = vehicle_present /\ events' = events
C1_Hysteresis ==
    /\ ~vehicle_present
    /\ [][C1_Processed => C1_Transition]_vars

\* An Exit just processed, after an earlier Entry.
C1_Witness ==
    /\ lastRead.kind = "read"
    /\ lastRead.smoothed > vehicle_absent_mm
    /\ lastRead.was_present
    /\ ~vehicle_present
    /\ events = <<"Entry", "Exit">>

\* C2: Entry and Exit events strictly alternate, starting with Entry.
C2_Alternation ==
    \A k \in 1..Len(events) :
        events[k] = IF k % 2 = 1 THEN "Entry" ELSE "Exit"

C2_Witness == events = <<"Entry", "Exit", "Entry">>

\* C3: at no time are two entry bursts active (created and not yet finished)
\* at once.
ActiveBursts ==
    {i \in 1..Len(bursts) : bursts[i].pc \in {"ready", "sleep", "sending"}}
C3_OneEntryBurst == Cardinality(ActiveBursts) <= 1

\* C4: no verification capture is requested while the presence state is
\* Absent; a verification loop that wakes up (from its interval sleep or
\* inside a burst) while Absent requests no image and goes back to the
\* interval sleep, or returns on shutdown.
C4_Skips ==
    ver' # ver /\ ver.pc \in {"sleep", "burst_sleep"} /\ ~vehicle_present
        => ver'.pc \in {"sleep", "done"} /\ ncap' = ncap
C4_PresenceGated ==
    /\ [](lastCapture.label = "verification" => vehicle_present)
    /\ [][C4_Skips]_vars

\* A verification burst that has made one capture and was ended by an Exit
\* before its duration elapsed.
C4_Witness ==
    /\ ncap["verification"] = 1
    /\ events = <<"Entry", "Exit">>
    /\ running
    /\ ver.pc = "sleep"
    /\ ver.wake = now + check_interval
    /\ now < check_interval + check_duration

\* C5: an entry burst that ends without a shutdown has issued exactly
\* ceil(duration / interval) capture attempts.
CeilDiv(a, b) == (a + b - 1) \div b
C5_ExactCount ==
    \A i \in 1..Len(bursts) :
        bursts[i].pc = "done" /\ running
            => bursts[i].count = CeilDiv(entry_duration, entry_interval)

\* C6: fallback captures occur only with the sensor disabled, and never in
\* an execution that has sensor-driven activity (a reading processed, an
\* Entry/Exit event, an entry burst, an exit capture, a verification
\* capture), and conversely.
SensorDriven ==
    \/ lastRead.kind = "read"
    \/ distance_history # <<>>
    \/ events # <<>>
    \/ bursts # <<>>
    \/ exitcaps # <<>>
    \/ ncap["entry"] + ncap["exit"] + ncap["verification"] > 0
FallbackActive == fb.pc \in {"sleep", "sending"} \/ ncap["fallback"] > 0
C6_FallbackExclusive ==
    /\ FallbackActive => ~tof_enabled /\ ~SensorDriven
    /\ SensorDriven => tof_enabled /\ ~FallbackActive

\* Two fallback captures made beside a running verification loop.
C6_Witness ==
    /\ ncap["fallback"] >= 2
    /\ ver.pc = "sleep"
    /\ lastCapture.label = "fallback"

\* C7: once stop() has run, the sampling, verification and fallback loops
\* return, start() returns, and no entry burst or exit capture is left
\* running.
AllTerminated ==
    /\ main_pc = "returned"
    /\ {tof.pc, ver.pc, fb.pc} \subseteq {"done", "none"}
    /\ \A i \in 1..Len(bursts) : bursts[i].pc \in Finished
    /\ \A i \in 1..Len(exitcaps) : exitcaps[i] \in Finished
C7_ShutdownTerminates == closed ~> AllTerminated

\* After a shutdown that came while an entry burst and a verification burst
\* were in flight, everything has ended.
C7_Witness ==
    /\ AllTerminated
    /\ closed
    /\ Len(bursts) >= 1
    /\ ncap["verification"] >= 1

\* C8: a finished capture-and-send call has one of the outcomes Sent,
\* CaptureFailed, SendFailed: CaptureFailed, with no send, when the camera
\* gave no image; SendFailed when the post timed out, raised or answered
\* another status than 200, and Sent when it answered 200, in both cases
\* after one send and with no further camera request or send by the call.
TaskPc(kind, idx) ==
    CASE kind = "burst" -> bursts[idx].pc
      [] kind = "exit" -> exitcaps[idx]
      [] kind = "ver" -> ver.pc
      [] kind = "fb" -> fb.pc
      [] OTHER -> "none"
C8_Outcome ==
    /\ lastCall.kind # "none" =>
          /\ lastCall.outcome \in {"Sent", "CaptureFailed", "SendFailed"}
          /\ TaskPc(lastCall.kind, lastCall.idx) # "sending"
    /\ lastCapture.cam = "raise" =>
          /\ lastCall.outcome = "CaptureFailed"
          /\ lastCall.label = lastCapture.label
          /\ lastCall.sends = 0
    /\ lastCapture.cam \in {"frame", "simulated"} => lastCall = NoCall
    /\ lastCall.outcome = "CaptureFailed" => lastCapture.cam = "raise"
    /\ lastCall.resp = "200" => lastCall.outcome = "Sent"
    /\ lastCall.resp \in {"500", "timeout", "raise"} =>
          lastCall.outcome = "SendFailed"
    /\ lastCall.resp # "none" =>
          lastCall.sends = 1 /\ lastCapture = NoCapture

\* An exit capture whose post timed out.
C8_Witness ==
    /\ lastCall.label = "exit"
    /\ lastCall.resp = "timeout"
    /\ lastCall.outcome = "SendFailed"

\* C9: no failure of a capture or of a send ends a loop or a burst: no task
\* ends with an exception, the three loops end only on shutdown, and the
\* task whose call has just failed is at its next scheduled sleep (or, for
\* the fallback loop after a shutdown and the one-shot exit capture, done).
Alive == {"ready", "sleep", "burst_sleep", "sending"}
C9_NextIteration ==
    CASE lastCall.kind = "burst" ->
           /\ bursts[lastCall.idx].pc = "sleep"
           /\ bursts[lastCall.idx].wake = now + entry_interval
      [] lastCall.kind = "ver" ->
           /\ ver.pc = "burst_sleep"
           /\ ver.wake = now + check_send_interval
      [] lastCall.kind = "fb" ->
           IF running
           THEN fb.pc = "sleep" /\ fb.wake = now + fallback_interval
           ELSE fb.pc = "done"
      [] OTHER -> exitcaps[lastCall.idx] = "done"
C9_FailuresContained ==
    /\ main_pc # "raised"
    /\ "crashed" \notin {tof.pc, ver.pc, fb.pc}
    /\ \A i \in 1..Len(bursts) : bursts[i].pc # "crashed"
    /\ \A i \in 1..Len(exitcaps) : exitcaps[i] # "crashed"
    /\ main_pc = "gather" /\ running =>
          /\ tof_enabled => tof.pc \in Alive
          /\ config.periodic_enabled => ver.pc \in Alive
          /\ ~tof_enabled /\ config.fallback_enabled => fb.pc \in Alive
    /\ lastCall.outcome \in {"CaptureFailed", "SendFailed"} => C9_NextIteration

\* A verification capture whose post raised, with the loop still running.
C9_Witness ==
    /\ lastCall.kind = "ver"
    /\ lastCall.resp = "raise"
    /\ running
    /\ ver.pc = "burst_sleep"

\* C10: a failed sensor read returns None, leaves the presence state, the
\* event log, the smoothing window and the spawned tasks unchanged, and the
\* sampling loop sleeps its normal interval before the next cycle.
C10_Inconclusive ==
    /\ lastRead'.distance = None
    /\ UNCHANGED <<vehicle_present, events, distance_history, samples, bursts,
                   exitcaps>>
    /\ tof' = [pc |-> "sleep", wake |-> now + sample_interval]
C10_FailedRead ==
    [][lastRead'.kind = "read" /\ lastRead'.raw = SensorRaises
           => C10_Inconclusive]_vars

\* A read that failed while Present, with two samples in the window.
C10_Witness ==
    /\ lastRead.kind = "read"
    /\ lastRead.raw = SensorRaises
    /\ vehicle_present
    /\ Len(distance_history) = 2
    /\ tof.pc = "sleep"

\* C11: the smoothed distance returned after a successful read is the mean
\* of the last min(N, k) samples rounded to the nearest millimetre: it is
\* at most half a millimetre from the mean (whichever way a tie is rounded).
Min(a, b) == IF a <= b THEN a ELSE b
Abs(a) == IF a >= 0 THEN a ELSE -a
LastN(s, n) == SubSeq(s, Len(s) - n + 1, Len(s))
RecentSamples == LastN(samples, Min(config.smoothing_window, Len(samples)))
C11_NearestMean ==
    lastRead.kind = "read" /\ lastRead.distance # None
        => 2 * Abs(Sum(RecentSamples) - lastRead.smoothed * Len(RecentSamples))
               <= Len(RecentSamples)

\* C12: with thresholds 500/700 and window 1, the stream
\* 800,800,400,400,400,650,650,800,800 yields one Entry, emitted at the
\* first 400 (3rd sample), and one Exit; the 650 readings produce nothing.
\* As stated, the Exit is emitted at the final 800 (9th sample).
Stream == <<800, 800, 400, 400, 400, 650, 650, 800, 800>>
IsPrefix(s, t) == Len(s) <= Len(t) /\ s = SubSeq(t, 1, Len(s))
OnStream ==
    /\ config.smoothing_window = 1
    /\ config.thresholds = <<500, 700>>
    /\ IsPrefix(samples, Stream)
EventsWithExitAt(k) ==
    IF Len(samples) < 3 THEN <<>>
    ELSE IF Len(samples) < k THEN <<"Entry">>
    ELSE <<"Entry", "Exit">>
C12_ExitAtFinalSample == OnStream => events = EventsWithExitAt(9)

\* C12 as amended: the Exit is emitted at the first 800 that follows the
\* 650 readings (8th sample); the final 800 produces no further event.
C12_StreamEvents == OnStream => events = EventsWithExitAt(8)

C12_Witness ==
    /\ config.smoothing_window = 1
    /\ samples = Stream
    /\ events = <<"Entry", "Exit">>
    /\ ~vehicle_present

\* C13: every Exit event creates exactly one "exit" capture task if the exit
\* trigger is enabled and set to send immediately, and none otherwise; each
\* such task requests exactly one image, so that no "exit" capture happens
\* without an Exit event before it.
NumExits == Cardinality({k \in 1..Len(events) : events[k] = "Exit"})
ExitTasksStarted ==
    Cardinality({i \in 1..Len(exitcaps) : exitcaps[i] # "ready"})
C13_ExitCapture ==
    /\ Len(exitcaps) =
           IF config.exit_enabled /\ config.exit_send_immediate
           THEN NumExits ELSE 0
    /\ ncap["exit"] = ExitTasksStarted

C13_Witness ==
    /\ events = <<"Entry", "Exit">>
    /\ ncap["exit"] = 1
    /\ exitcaps = <<"done">>
    /\ tof.pc = "sleep"

\* C14: the sampling loop is never blocked by the tasks it triggers: as long
\* as the system runs with the sensor enabled, the loop is about to read or
\* asleep for at most one sample interval, whatever the entry bursts, exit
\* captures and verification burst are doing.
C14_SamplingNeverBlocked ==
    main_pc = "gather" /\ running /\ tof_enabled
        => \/ tof.pc = "ready"
           \/ tof.pc = "sleep" /\ tof.wake <= now + sample_interval

\* The loop raises an Exit while an entry burst and the verification burst
\* are both suspended in a send.
C14_Witness ==
    /\ lastRead.kind = "read"
    /\ events = <<"Entry", "Exit">>
    /\ ~vehicle_present
    /\ Len(bursts) = 1 /\ bursts[1].pc = "sending"
    /\ ver.pc = "sending"
    /\ tof.pc = "sleep"

\* C15: with thresholds that do not satisfy present_mm < absent_mm the
\* process stops at startup: start() never gets to create the loops, no
\* sample is read and no Entry/Exit event is raised.
ValidThresholds == vehicle_present_mm < vehicle_absent_mm
C15_InvalidConfigFatal ==
    ~ValidThresholds
        => main_pc = "init" /\ ~running /\ samples = <<>> /\ events = <<>>

\* C16: an entry burst does not consult the presence state: whenever a burst
\* wakes from its interval sleep before its end time and without a shutdown,
\* it requests the next "entry" image, Present or Absent; and after each
\* capture attempt it sleeps its interval again.
C16_BurstStep(i) ==
    /\ bursts[i].pc = "sleep" /\ bursts'[i] # bursts[i]
           /\ now < bursts[i].end_time /\ running
        => /\ ncap'["entry"] = ncap["entry"] + 1
           /\ lastCapture'.label = "entry"
           /\ bursts'[i].count = bursts[i].count + 1
    /\ bursts[i].pc = "sending" /\ bursts'[i] # bursts[i] /\ main_pc' = main_pc
        => bursts'[i].pc = "sleep" /\ bursts'[i].wake = now + entry_interval
C16_IgnoresPresence ==
    [][\A i \in 1..Len(bursts) : C16_BurstStep(i)]_vars

\* The second capture of a burst, requested after the Exit.
C16_Witness ==
    /\ lastCapture.label = "entry"
    /\ events = <<"Entry", "Exit">>
    /\ ~vehicle_present
    /\ Len(bursts) = 1 /\ bursts[1].count = 2

\* C17: the presence state changes only in a step of the sampling loop that
\* processes a reading and raises the Entry or Exit event of the change;
\* every step of a burst, an exit capture, the verification loop, the
\* fallback loop, stop() and the clock leaves it unchanged.
C17_OnlyDetector ==
    [][vehicle_present' # vehicle_present
           => /\ lastRead'.kind = "read"
              /\ tof' # tof
              /\ events' = Append(events,
                                  IF vehicle_present' THEN "Entry" ELSE "Exit")
      ]_vars

\* A verification send finishes after stop() while the state is Present.
C17_Witness ==
    /\ vehicle_present
    /\ closed
    /\ lastCall.kind = "ver"
    /\ \E i \in 1..Len(bursts) : bursts[i].pc = "done"

\* C18: the smoothing window never holds more than N samples (N the
\* configured window size), and it holds exactly the most recent min(N, k)
\* of the k samples read successfully so far, in arrival order.
C18_WindowFIFO ==
    /\ Len(distance_history) <= config.smoothing_window
    /\ distance_history = RecentSamples

\* The oldest of three samples has been evicted from a window of two.
C18_Witness ==
    /\ config.smoothing_window = 2
    /\ Len(samples) = 3
    /\ samples[1] # samples[2] /\ samples[2] # samples[3]
    /\ distance_history = <<samples[2], samples[3]>>

\* C19: once stop() has run (running cleared, sensor and camera closed), no
\* task requests an image from the camera.
C19_NoCaptureAfterStop == closed => lastCapture = NoCapture

\* C20: the presence state does not depend on the trigger enable flags: in
\* every reachable state, for every setting of the entry, exit and periodic
\* flags, it is the state the hysteresis rule yields on the samples read so
\* far (with the configured window and thresholds), which is what the
\* verification loop reads.
SmoothedAt(k) ==
    LET n == Min(config.smoothing_window, k)
        window == SubSeq(samples, k - n + 1, k)
    IN  Sum(window) \div n
RECURSIVE PresenceAfter(_)
PresenceAfter(k) ==
    IF k = 0 THEN FALSE
    ELSE LET before == PresenceAfter(k - 1)
         IN  IF SmoothedAt(k) < vehicle_present_mm /\ ~before THEN TRUE
             ELSE IF SmoothedAt(k) > vehicle_absent_mm /\ before THEN FALSE
             ELSE before
C20_FlagIndependent == vehicle_present = PresenceAfter(Len(samples))

\* With the entry and exit triggers disabled, a verification capture is
\* made while Present.
C20_Witness ==
    /\ ~config.entry_enabled /\ ~config.exit_enabled
    /\ vehicle_present
    /\ lastCapture.label = "verification"
    /\ bursts = <<>> /\ exitcaps = <<>>

====
